---- MODULE Spec2Model ----
(***************************************************************************)
(* Model of relay_control.py: the Controller (one deque + Condition +      *)
(* consumer thread per nozzle), its receive() entry point, and the         *)
(* RelayControl actuator board it drives.                                  *)
(*                                                                         *)
(* Time is a discrete clock `now`; time.sleep(s) returns at any instant    *)
(* not earlier than s ticks after it was called.  Threads interleave at    *)
(* the points where the code takes or releases the nozzle's Condition,     *)
(* reads the clock, sleeps, or calls the relay board.                      *)
(***************************************************************************)
EXTENDS Integers, Sequences, FiniteSets, TLC

\* ---------------------------------------------------------------- bounds
NumNozzles  == 2    \* len(nozzleDict)
NumCallers  == 2    \* threads that call receive()
MaxJobs     == 2    \* receive() calls in one run of Spec and SpecAdmin
MaxTimedJobs == 1   \* receive() calls in one run of SpecTiming
MaxBurst    == 6    \* receive() calls in one run of SpecBurst
MaxTime     == 1    \* last instant of the clock
MaxDelay    == 1    \* largest `delay` argument
MaxDuration == 2    \* largest `duration` argument

\* ------------------------------------------------------ program constants
maxlen == 5         \* collections.deque(maxlen=5)

Nozzles == 0 .. (NumNozzles - 1)
Callers == 1 .. NumCallers
Free    == 0        \* the Condition's lock is not held
Worker  == 0 - 1    \* the Condition's lock is held by the nozzle's consumer
NoJob   == [seq |-> 0, timeStamp |-> 0, delay |-> 0, duration |-> 0]
NoLine  == [tag |-> "none", onDur |-> 0]

VARIABLES
    now,            \* time.time()
    solenoidDict,   \* keys currently mapped to a relay in RelayControl
    relay,          \* relay[k]: last command the relay object of key k got
    running,        \* Controller.running
    nozzleQueue,    \* nozzleQueueDict[n]
    lock,           \* owner of nozzleconditionDict[n]
    pc,             \* program point of consumer(n)
    nozzleOn,       \* consumer(n)'s local nozzleOn
    sprayJob,       \* consumer(n)'s local sprayJob
    timeDiff,       \* consumer(n)'s local timeDiff
    onDur,          \* consumer(n)'s local onDur
    wakeAt,         \* earliest instant at which consumer(n)'s sleep returns
    rpc,            \* program point of each receive() caller
    msg,            \* the caller's arguments: nozzle and inputQMessage
    report,         \* last timing line consumer(n) wrote to the log
    audit,          \* number of lines receive() wrote to the log
    received,       \* number of receive() calls made so far
    appended,       \* history: number of jobs appended to nozzle n's deque
    dequeued,       \* history: seq numbers consumer(n) popped, in order
    evicted,        \* history: seq numbers the full deque of n discarded
    calls,          \* history: relay calls consumer(n) made, in order
    runJobs,        \* history: jobs consumer(n) popped since it last parked
    runEnd,         \* history: latest timeStamp + duration in the last run
    keyError,       \* history: nozzle arguments for which receive() raised
    stopLog         \* history: what the last stop() found mapped, switched off

vars == <<now, solenoidDict, stopLog, relay, running, nozzleQueue, lock, pc, nozzleOn,
          sprayJob, timeDiff, onDur, wakeAt, rpc, msg, report, audit,
          received, appended, dequeued, evicted, calls, runJobs, runEnd,
          keyError>>

workerVars == <<running, pc, nozzleOn, sprayJob, timeDiff, onDur, wakeAt,
                report, dequeued, calls, runJobs, runEnd>>
callerVars == <<rpc, msg, audit, received, appended, evicted, keyError>>

\* ------------------------------------------------------- pure functions

\* a bounded queue that refuses the new item when full (drop-newest)
appendDropNewest(q, x) ==
    IF Len(q) >= maxlen THEN q ELSE Append(q, x)

\* deque(maxlen=5).append(x): a full deque discards its leftmost item
append(q, x) ==
    IF Len(q) >= maxlen THEN Append(Tail(q), x) ELSE Append(q, x)

\* deque.pop(): the rightmost item and the deque without it
pop(q) ==
    [job |-> q[Len(q)], rest |-> SubSeq(q, 1, Len(q) - 1)]

\* deque.popleft(): the leftmost item and the deque without it
popleft(q) ==
    [job |-> Head(q), rest |-> Tail(q)]

\* the seq numbers of the jobs in a deque
Seqs(q) == {q[i].seq : i \in DOMAIN q}

\* one Condition shared by all nozzles
nozzleconditionShared(n) == 0

\* self.nozzleconditionDict[nozzle]: each nozzle has a Condition of its own
nozzleconditionDict(n) == n

\* the lock of a consumer that goes on without releasing it
releaseKept(owner) == owner

\* inputCondition.release() by the consumer after popleft: line 151
release(owner) == Free

\* the on-duration left, not clamped
OnDurRaw(duration, diff) ==
    duration - diff

\* the on-duration left, the elapsed time taken off twice
OnDurTwice(duration, diff) ==
    IF duration - 2 * diff <= 0 THEN 0 ELSE duration - 2 * diff

\* onDur = 0 if (sprayJob[3] - timeDiff <= 0) else (sprayJob[3] - timeDiff)
OnDur(duration, diff) ==
    IF duration - diff <= 0 THEN 0 ELSE duration - diff

\* delay = 0 if onDur == 0 else (sprayJob[2] - timeDiff)
Delay(dur, delay, diff) ==
    IF dur = 0 THEN 0 ELSE delay - diff

\* time.sleep(s) with no handler around it
sleepUnguarded(s) == s

\* try: time.sleep(s)  except ValueError: time.sleep(0)
\* time.sleep raises ValueError for a negative argument
sleep(s) ==
    IF s < 0 THEN 0 ELSE s

\* the tag of the line the try/except around time.sleep(onDur) logs
ReportTag(dur) ==
    IF dur < 0 THEN "ERROR" ELSE "INFO"

\* a Condition whose notify() wakes no thread
notifyNone(p) == p

\* inputCondition.notify(): the consumer parked in wait() is woken: line 129
notify(p) == IF p = "waiting" THEN "notified" ELSE p

\* a queue for every key that is asked for
nozzleQueueDictAny == 0 .. NumNozzles

\* the keys of self.nozzleQueueDict: range(0, len(self.nozzleDict)), line 98
nozzleQueueDict == Nozzles

\* a consumer that delays and energizes for every job
NeedsOnAlways(on) == TRUE

\* `if not nozzleOn:` guarding the delay wait and relay_on: line 157
NeedsOn(on) == ~on

\* a consumer that never de-energizes
QueueDrainedNever(q) == FALSE

\* `if len(nozzleQueue) == 0:` guarding relay_off: line 178
QueueDrained(q) == Len(q) = 0

\* ------------------------------------------------------------------ Init

\* RelayControl(solenoidDict): a relay object for every key of the mapping,
\* none commanded yet: lines 33-46
RelayControl(dict) ==
    /\ solenoidDict = dict
    /\ relay = [k \in dict |-> "unset"]

\* Controller.__init__: a deque, a Condition and a consumer thread for every
\* number in range(0, len(nozzleDict)), none started yet: lines 87-106
Controller ==
    /\ now = 0
    /\ running = FALSE
    /\ nozzleQueue = [n \in Nozzles |-> <<>>]
    /\ lock = [n \in Nozzles |-> Free]
    /\ pc = [n \in Nozzles |-> "start"]
    /\ nozzleOn = [n \in Nozzles |-> FALSE]
    /\ sprayJob = [n \in Nozzles |-> NoJob]
    /\ timeDiff = [n \in Nozzles |-> 0]
    /\ onDur = [n \in Nozzles |-> 0]
    /\ wakeAt = [n \in Nozzles |-> 0]
    /\ rpc = [c \in Callers |-> "idle"]
    /\ msg = [c \in Callers |-> [nozzle |-> 0, job |-> NoJob]]
    /\ report = [n \in Nozzles |-> NoLine]
    /\ audit = 0
    /\ received = 0
    /\ appended = [n \in Nozzles |-> 0]
    /\ dequeued = [n \in Nozzles |-> <<>>]
    /\ evicted = [n \in Nozzles |-> {}]
    /\ calls = [n \in Nozzles |-> <<>>]
    /\ runJobs = [n \in Nozzles |-> 0]
    /\ runEnd = [n \in Nozzles |-> 0]
    /\ keyError = <<>>
    /\ stopLog = [called |-> FALSE, mapped |-> {}, off |-> {}]

\* The mapping has the keys 0 .. len(nozzleDict) - 1.
Init == RelayControl(Nozzles) /\ Controller

\* The mappings of len(nozzleDict) keys out of 0 .. len(nozzleDict)
Mappings == {K \in SUBSET (0 .. NumNozzles) : Cardinality(K) = NumNozzles}

\* The mapping has any keys.
InitConfig == \E nozzleDict \in Mappings : RelayControl(nozzleDict) /\ Controller

\* ----------------------------------------------------------------- clock
Tick ==
    /\ now' = now + 1
    /\ UNCHANGED <<solenoidDict, stopLog, relay, nozzleQueue, lock, workerVars,
                   callerVars>>

\* --------------------------------------------------------------- receive

\* receive(nozzle, timeStamp, delay=.., duration=..) is called: lines 123-125.
\* self.nozzleQueueDict[nozzle] raises KeyError for a nozzle that has no
\* deque, and the call ends there.
Receive(c, n, timeStamp, delay, duration) ==
    /\ rpc[c] = "idle"
    /\ received' = received + 1
    /\ IF n \in nozzleQueueDict
       THEN /\ msg' = [msg EXCEPT ![c] = [nozzle |-> n,
                        job |-> [seq |-> 0, timeStamp |-> timeStamp,
                                 delay |-> delay, duration |-> duration]]]
            /\ rpc' = [rpc EXCEPT ![c] = "with"]
            /\ UNCHANGED keyError
       ELSE /\ keyError' = Append(keyError, n)
            /\ UNCHANGED <<msg, rpc>>
    /\ UNCHANGED <<now, solenoidDict, stopLog, relay, nozzleQueue, lock,
                   workerVars, audit, appended, evicted>>

\* `with inputCondition:` acquires the Condition's lock: line 127
ReceiveEnter(c) ==
    /\ rpc[c] = "with"
    /\ lock[nozzleconditionDict(msg[c].nozzle)] = Free
    /\ lock' = [lock EXCEPT ![nozzleconditionDict(msg[c].nozzle)] = c]
    /\ rpc' = [rpc EXCEPT ![c] = "append"]
    /\ UNCHANGED <<now, solenoidDict, stopLog, relay, nozzleQueue, workerVars,
                   msg, audit, received, appended, evicted, keyError>>

\* inputQ.append(..); inputCondition.notify(); leave the with block: 128-129
ReceiveAppend(c) ==
    LET n == msg[c].nozzle
        job == [msg[c].job EXCEPT !.seq = appended[n] + 1]
    IN  /\ rpc[c] = "append"
        /\ lock[nozzleconditionDict(n)] = c
        /\ nozzleQueue' = [nozzleQueue EXCEPT ![n] = append(@, job)]
        /\ evicted' = [evicted EXCEPT ![n] =
                          @ \cup ((Seqs(nozzleQueue[n]) \cup {job.seq})
                                    \ Seqs(nozzleQueue'[n]))]
        /\ appended' = [appended EXCEPT ![n] = @ + 1]
        /\ pc' = [pc EXCEPT ![n] = notify(@)]
        /\ lock' = [lock EXCEPT ![nozzleconditionDict(n)] = Free]
        /\ rpc' = [rpc EXCEPT ![c] = "log"]
        /\ UNCHANGED <<now, solenoidDict, stopLog, relay, running, nozzleOn,
                       sprayJob, timeDiff, onDur, wakeAt, report, dequeued,
                       calls, runJobs, runEnd, msg, audit, received, keyError>>

\* self.logger.log_line(line) and return: lines 131-132
ReceiveLog(c) ==
    /\ rpc[c] = "log"
    /\ audit' = audit + 1
    /\ rpc' = [rpc EXCEPT ![c] = "idle"]
    /\ msg' = [msg EXCEPT ![c] = [nozzle |-> 0, job |-> NoJob]]
    /\ UNCHANGED <<now, solenoidDict, stopLog, relay, nozzleQueue, lock,
                   workerVars, received, appended, evicted, keyError>>

\* -------------------------------------------------------------- consumer

\* self.running = True; inputCondition.acquire(); nozzleOn = False: 142-146
Start(n) ==
    /\ pc[n] = "start"
    /\ lock[nozzleconditionDict(n)] = Free
    /\ running' = TRUE
    /\ lock' = [lock EXCEPT ![nozzleconditionDict(n)] = Worker]
    /\ nozzleOn' = [nozzleOn EXCEPT ![n] = FALSE]
    /\ pc' = [pc EXCEPT ![n] = "outer"]
    /\ UNCHANGED <<now, solenoidDict, stopLog, relay, nozzleQueue, sprayJob, timeDiff,
                   onDur, wakeAt, report, dequeued, calls, runJobs, runEnd, callerVars>>

\* the loop tests pass and a job is popped:
\* while self.running: while nozzleQueue: popleft(); release(): 147-151
Dequeue(n) ==
    /\ \/ pc[n] = "inner"
       \/ pc[n] = "outer" /\ running
    /\ lock[nozzleconditionDict(n)] = Worker
    /\ nozzleQueue[n] # <<>>
    /\ sprayJob' = [sprayJob EXCEPT ![n] = popleft(nozzleQueue[n]).job]
    /\ nozzleQueue' = [nozzleQueue EXCEPT ![n] = popleft(@).rest]
    /\ lock' = [lock EXCEPT ![nozzleconditionDict(n)] = release(@)]
    /\ dequeued' = [dequeued EXCEPT ![n] = Append(@, sprayJob'[n].seq)]
    /\ runJobs' = [runJobs EXCEPT ![n] = @ + 1]
    /\ runEnd' = [runEnd EXCEPT ![n] =
                     IF runJobs[n] = 0
                        \/ sprayJob'[n].timeStamp + sprayJob'[n].duration > @
                     THEN sprayJob'[n].timeStamp + sprayJob'[n].duration
                     ELSE @]
    /\ pc' = [pc EXCEPT ![n] = "timing"]
    /\ UNCHANGED <<now, solenoidDict, stopLog, relay, running, nozzleOn, timeDiff,
                   onDur, wakeAt, report, calls, callerVars>>

\* timeDiff, onDur are computed; with the nozzle off the delay wait begins,
\* with the nozzle on the on-duration wait begins: lines 153-161, 167-168
Timing(n) ==
    LET diff == now - sprayJob[n].timeStamp
        dur  == OnDur(sprayJob[n].duration, diff)
    IN  /\ pc[n] = "timing"
        /\ timeDiff' = [timeDiff EXCEPT ![n] = diff]
        /\ onDur' = [onDur EXCEPT ![n] = dur]
        /\ IF NeedsOn(nozzleOn[n])
           THEN /\ wakeAt' = [wakeAt EXCEPT ![n] =
                        now + sleep(Delay(dur, sprayJob[n].delay, diff))]
                /\ pc' = [pc EXCEPT ![n] = "delay"]
           ELSE /\ wakeAt' = [wakeAt EXCEPT ![n] = now + sleep(dur)]
                /\ pc' = [pc EXCEPT ![n] = "spray"]
        /\ UNCHANGED <<now, solenoidDict, stopLog, relay, running, nozzleQueue, lock,
                       nozzleOn, sprayJob, report, dequeued, calls, runJobs, runEnd,
                       callerVars>>

\* the delay wait is over: relay_on(nozzle); nozzleOn = True; the on-duration
\* wait begins: lines 165-168.  relay_on raises KeyError for an unmapped key
\* and the thread ends, not holding the lock.
TurnOn(n) ==
    /\ pc[n] = "delay"
    /\ now >= wakeAt[n]
    /\ IF n \in solenoidDict
       THEN /\ relay' = [relay EXCEPT ![n] = "on"]
            /\ calls' = [calls EXCEPT ![n] = Append(@, "on")]
            /\ nozzleOn' = [nozzleOn EXCEPT ![n] = TRUE]
            /\ wakeAt' = [wakeAt EXCEPT ![n] = now + sleep(onDur[n])]
            /\ pc' = [pc EXCEPT ![n] = "spray"]
       ELSE /\ pc' = [pc EXCEPT ![n] = "dead"]
            /\ UNCHANGED <<relay, calls, nozzleOn, wakeAt>>
    /\ UNCHANGED <<now, solenoidDict, stopLog, running, nozzleQueue, lock, sprayJob,
                   timeDiff, onDur, report, dequeued, runJobs, runEnd, callerVars>>

\* the on-duration wait is over and the timing line is logged: 168-176
Report(n) ==
    /\ pc[n] = "spray"
    /\ now >= wakeAt[n]
    /\ report' = [report EXCEPT ![n] =
                     [tag |-> ReportTag(onDur[n]), onDur |-> onDur[n]]]
    /\ pc' = [pc EXCEPT ![n] = "acquire"]
    /\ UNCHANGED <<now, solenoidDict, stopLog, relay, running, nozzleQueue, lock,
                   nozzleOn, sprayJob, timeDiff, onDur, wakeAt, dequeued,
                   calls, runJobs, runEnd, callerVars>>

\* inputCondition.acquire() at the end of the inner loop body: line 177.
\* The locals of the finished job are dead from here on (the next popleft
\* overwrites each before it is read) and are put back to their blank values.
Reacquire(n) ==
    /\ pc[n] = "acquire"
    /\ lock[nozzleconditionDict(n)] = Free
    /\ lock' = [lock EXCEPT ![nozzleconditionDict(n)] = Worker]
    /\ pc' = [pc EXCEPT ![n] = "inner"]
    /\ sprayJob' = [sprayJob EXCEPT ![n] = NoJob]
    /\ timeDiff' = [timeDiff EXCEPT ![n] = 0]
    /\ onDur' = [onDur EXCEPT ![n] = 0]
    /\ wakeAt' = [wakeAt EXCEPT ![n] = 0]
    /\ report' = [report EXCEPT ![n] = NoLine]
    /\ UNCHANGED <<now, solenoidDict, stopLog, relay, running, nozzleQueue, nozzleOn,
                   dequeued, calls, runJobs, runEnd, callerVars>>

\* `while nozzleQueue:` finds the deque empty; `if len(nozzleQueue) == 0:`
\* relay_off(nozzle); nozzleOn = False; then inputCondition.wait() releases
\* the lock and parks: lines 147-148, 178-182.
\* With running false the outer loop ends and consumer returns, still
\* holding the lock.  relay_off raises KeyError for an unmapped key and the
\* thread ends, still holding the lock.
Park(n) ==
    /\ pc[n] \in {"outer", "inner"}
    /\ lock[nozzleconditionDict(n)] = Worker
    /\ IF pc[n] = "outer" /\ ~running
       THEN /\ pc' = [pc EXCEPT ![n] = "exited"]
            /\ UNCHANGED <<relay, calls, nozzleOn, lock, runJobs, runEnd>>
       ELSE /\ nozzleQueue[n] = <<>>
            /\ IF ~QueueDrained(nozzleQueue[n])
               THEN /\ lock' = [lock EXCEPT ![nozzleconditionDict(n)] = Free]
                    /\ runJobs' = [runJobs EXCEPT ![n] = 0]
                    /\ UNCHANGED runEnd
                    /\ pc' = [pc EXCEPT ![n] = "waiting"]
                    /\ UNCHANGED <<relay, calls, nozzleOn>>
               ELSE IF n \in solenoidDict
               THEN /\ relay' = [relay EXCEPT ![n] = "off"]
                    /\ calls' = [calls EXCEPT ![n] = Append(@, "off")]
                    /\ nozzleOn' = [nozzleOn EXCEPT ![n] = FALSE]
                    /\ lock' = [lock EXCEPT ![nozzleconditionDict(n)] = Free]
                    /\ runJobs' = [runJobs EXCEPT ![n] = 0]
                    /\ UNCHANGED runEnd
                    /\ pc' = [pc EXCEPT ![n] = "waiting"]
               ELSE /\ pc' = [pc EXCEPT ![n] = "dead"]
                    /\ UNCHANGED <<relay, calls, nozzleOn, lock, runJobs, runEnd>>
    /\ UNCHANGED <<now, solenoidDict, stopLog, running, nozzleQueue, sprayJob,
                   timeDiff, onDur, wakeAt, report, dequeued, callerVars>>

\* a notified wait() takes the lock again and returns: line 182
Wake(n) ==
    /\ pc[n] = "notified"
    /\ lock[nozzleconditionDict(n)] = Free
    /\ lock' = [lock EXCEPT ![nozzleconditionDict(n)] = Worker]
    /\ pc' = [pc EXCEPT ![n] = "outer"]
    /\ UNCHANGED <<now, solenoidDict, stopLog, relay, running, nozzleQueue, nozzleOn,
                   sprayJob, timeDiff, onDur, wakeAt, report, dequeued,
                   calls, runJobs, runEnd, callerVars>>

Consumer(n) ==
    \/ Start(n)
    \/ Dequeue(n)
    \/ Timing(n)
    \/ TurnOn(n)
    \/ Report(n)
    \/ Reacquire(n)
    \/ Park(n)
    \/ Wake(n)

\* ---------------------------------------------------------- RelayControl
adminUnchanged == <<now, running, nozzleQueue, lock, pc, nozzleOn, sprayJob,
                    timeDiff, onDur, wakeAt, report, dequeued, calls, runJobs, runEnd,
                    callerVars>>

\* all_off(): relay_off(nozzle) for every key of the dict: lines 70-72
all_off(dict, r) ==
    [k \in DOMAIN r |-> IF k \in dict THEN "off" ELSE r[k]]

\* remove(solenoidNumber): self.solenoidDict.pop(solenoidNumber, None): 74-75
Remove(k) ==
    /\ solenoidDict' = solenoidDict \ {k}
    /\ UNCHANGED <<relay, stopLog>>
    /\ UNCHANGED adminUnchanged

\* clear(): self.solenoidDict = {}: lines 77-78
Clear ==
    /\ solenoidDict' = {}
    /\ UNCHANGED <<relay, stopLog>>
    /\ UNCHANGED adminUnchanged

\* stop(): self.clear() and then self.all_off(): lines 80-82
Stop ==
    /\ solenoidDict' = {}
    /\ relay' = all_off(solenoidDict', relay)
    /\ stopLog' = [called |-> TRUE, mapped |-> solenoidDict,
                   off |-> solenoidDict']
    /\ UNCHANGED adminUnchanged

\* One step of the program and its environment: the receive() calls go to the
\* nozzles in `targets`, from the threads in `callers`, at most `jobs` of
\* them, with arguments from `delays` and `durations` and the
\* instant of the call as timeStamp; the clock stops at `horizon`.
Step(targets, callers, jobs, delays, durations, horizon) ==
    \/ now < horizon /\ Tick
    \/ /\ received < jobs
       /\ \E c \in callers, n \in targets, d \in delays, u \in durations :
             Receive(c, n, now, d, u)
    \/ \E c \in Callers : ReceiveEnter(c)
    \/ \E c \in Callers : ReceiveAppend(c)
    \/ \E c \in Callers : ReceiveLog(c)
    \/ \E n \in Nozzles : Consumer(n)

\* Jobs with the default arguments (delay=0, duration=1) for any nozzle.
Next == Step(Nozzles, {1}, MaxJobs, {0}, {1}, MaxTime)

Spec == Init /\ [][Next]_vars

\* The same jobs, on a Controller built from any mapping.
SpecConfig == InitConfig /\ [][Next]_vars

\* Jobs with every delay and duration for one nozzle.
NextTiming == Step({0}, {1}, MaxTimedJobs, 0 .. MaxDelay, 0 .. MaxDuration, MaxTime)

SpecTiming == Init /\ [][NextTiming]_vars

\* Jobs with the extreme delays and the durations 0, 1 and MaxDuration for
\* one nozzle, enough of them for a run of merged jobs.
NextWindow == Step({0}, {1}, MaxJobs, {0, MaxDelay}, {0, 1, MaxDuration}, MaxTime)

SpecWindow == Init /\ [][NextWindow]_vars

\* A burst of default jobs for one nozzle, more than its deque holds.
NextBurst == Step({0}, {1}, MaxBurst, {0}, {1}, MaxTime)

SpecBurst == Init /\ [][NextBurst]_vars

\* The relay board's management calls, made from one more thread while the
\* consumers run, on a mapping that still has a key to lose.
NextAdmin ==
    \/ Step({0}, Callers, MaxJobs, {0}, {1}, MaxTime)
    \/ \E k \in solenoidDict : Remove(k)
    \/ solenoidDict # {} /\ Clear
    \/ solenoidDict # {} /\ Stop

\* Every started thread keeps being scheduled and the clock keeps running.
Fairness ==
    /\ WF_vars(now < MaxTime /\ Tick)
    /\ \A n \in Nozzles : WF_vars(Consumer(n))
    /\ \A c \in Callers :
          WF_vars(ReceiveEnter(c) \/ ReceiveAppend(c) \/ ReceiveLog(c))

SpecAdmin == Init /\ [][NextAdmin]_vars /\ Fairness

\* The clock is not counted past MaxTime: a time.sleep that reaches past it
\* returns there, at the last reading.
Overrun(n) ==
    /\ pc[n] \in {"delay", "spray"}
    /\ now = MaxTime
    /\ wakeAt[n] > now
    /\ wakeAt' = [wakeAt EXCEPT ![n] = now]
    /\ UNCHANGED <<now, solenoidDict, stopLog, relay, running, nozzleQueue, lock,
                   pc, nozzleOn, sprayJob, timeDiff, onDur, report, dequeued,
                   calls, runJobs, runEnd, callerVars>>

\* A burst of default jobs for one nozzle, every sleep being finite.
NextLive ==
    \/ Step({0}, {1}, MaxBurst, {0}, {1}, MaxTime)
    \/ \E n \in Nozzles : Overrun(n)

FairLive ==
    /\ Fairness
    /\ \A n \in Nozzles : WF_vars(Overrun(n))

SpecLive == Init /\ [][NextLive]_vars /\ FairLive

\* Jobs for nozzle 0 and for a nozzle number that has no deque.
NextLookup == Step({0, NumNozzles}, {1}, MaxJobs, {0}, {1}, MaxTime)

SpecLookup == Init /\ [][NextLookup]_vars

\* ------------------------------------------------------------ properties
Last(q) == q[Len(q)]

Max0(x) == IF x > 0 THEN x ELSE 0

\* on() calls of consumer(n) since its last off(): those of the current
\* activation run, every run ending with the off() of Park
OnsSinceOff(n) ==
    LET offs == {i \in DOMAIN calls[n] : calls[n][i] = "off"}
        from == IF offs = {} THEN 0
                ELSE CHOOSE i \in offs : \A j \in offs : j <= i
    IN  Cardinality({i \in DOMAIN calls[n] : i > from /\ calls[n][i] = "on"})

\* no receive(n, ..) has been called yet
NoReceiveYet(n) ==
    /\ appended[n] = 0
    /\ \A c \in Callers : rpc[c] = "idle" \/ msg[c].nozzle # n

\* consumer(n) is inside time.sleep for a job
Sleeping(n) == pc[n] \in {"delay", "spray"}

\* C1 (SpecBurst): in an activation run (the jobs popped since the consumer
\* last found its deque empty) on() is called exactly once, before the first
\* job's on-duration wait: none has been called while the first job is timed
\* or delayed, exactly one from the first on-duration wait to the end of the
\* run; a job popped with the nozzle already on gets no delay wait and no
\* on() of its own.
C1_Debounce ==
    \A n \in Nozzles :
        /\ pc[n] = "timing" => OnsSinceOff(n) = (IF runJobs[n] = 1 THEN 0 ELSE 1)
        /\ pc[n] = "delay" => runJobs[n] = 1 /\ OnsSinceOff(n) = 0
        /\ pc[n] \in {"spray", "acquire", "inner"} => OnsSinceOff(n) = 1
        /\ runJobs[n] = 0 => OnsSinceOff(n) = 0

C1_Witness ==
    /\ pc[0] = "spray"
    /\ runJobs[0] >= 3
    /\ OnsSinceOff(0) = 1

\* C2 as claimed (SpecBurst): until the first receive call for a nozzle its
\* consumer makes no relay call, neither on() nor off().
C2_NoCallBeforeReceive ==
    \A n \in Nozzles : NoReceiveYet(n) => calls[n] = <<>>

\* C2 as amended (SpecBurst): until the first receive call for a nozzle its
\* consumer calls on() never and off() at most once: none before it has
\* found its deque empty at startup, exactly one from then on, when it is
\* parked in wait().
C2_OnlyStartupOff ==
    \A n \in Nozzles :
        NoReceiveYet(n) =>
            /\ pc[n] \in {"start", "outer", "waiting"}
            /\ calls[n] = (IF pc[n] = "waiting" THEN <<"off">> ELSE <<>>)

C2_Witness ==
    /\ NoReceiveYet(1)
    /\ pc[1] = "waiting"
    /\ calls[1] = <<"off">>
    /\ appended[0] > 0

\* C3 (SpecBurst): the relay calls of a consumer alternate, so that after every
\* on() exactly one off() comes before the next on(); and an off() that
\* follows an on() is made only by the consumer holding the Condition, with
\* an empty deque, back at the loop test after a finished job, never while
\* it times, delays or sprays a job.
C3_Alternate ==
    \A n \in Nozzles :
        \A i \in 1 .. (Len(calls[n]) - 1) : calls[n][i] # calls[n][i + 1]

C3_OffStep ==
    \A n \in Nozzles :
        (calls'[n] = Append(calls[n], "off") /\ calls[n] # <<>>) =>
            /\ lock[nozzleconditionDict(n)] = Worker
            /\ nozzleQueue[n] = <<>>
            /\ pc[n] = "inner"
            /\ runJobs[n] >= 1
            /\ Last(calls[n]) = "on"

C3_OneOffPerRun == [](C3_Alternate) /\ [][C3_OffStep]_vars

C3_Witness ==
    \E n \in Nozzles :
        /\ Len(calls[n]) >= 5
        /\ Last(calls[n]) = "off"
        /\ Len(dequeued[n]) >= 3

\* C4 (SpecBurst): a deque never holds more than 5 jobs, and it holds the
\* most recently appended ones in the order of their appends: a receive on a
\* full deque discards the oldest job and puts the new one at the tail.  With
\* nothing popped yet, the deque holds the last min(5, appends) jobs and the
\* discarded ones are exactly the first appends - 5.
C4_DropOldest ==
    \A n \in Nozzles :
        LET q == nozzleQueue[n]
        IN  /\ Len(q) <= 5
            /\ \A i \in DOMAIN q : q[i].seq = appended[n] - Len(q) + i
            /\ dequeued[n] = <<>> =>
                  /\ Len(q) = (IF appended[n] < 5 THEN appended[n] ELSE 5)
                  /\ evicted[n] = 1 .. (appended[n] - 5)

C4_Witness ==
    /\ dequeued[0] = <<>>
    /\ appended[0] = 6
    /\ [i \in 1 .. 5 |-> nozzleQueue[0][i].seq] = <<2, 3, 4, 5, 6>>
    /\ evicted[0] = {1}

\* C5 (SpecBurst): the jobs a consumer pops come in the order of their
\* appends (seq numbers strictly increasing, so none twice), every job still
\* in the deque is younger than every popped one, and the appended jobs are
\* split into the popped, the pending and the discarded ones: the jobs
\* missing from the popped sequence are pending or were discarded.
C5_Fifo ==
    \A n \in Nozzles :
        LET d == dequeued[n]
            popped == {d[i] : i \in DOMAIN d}
        IN  /\ \A i \in 1 .. (Len(d) - 1) : d[i] < d[i + 1]
            /\ \A s \in Seqs(nozzleQueue[n]) : \A t \in popped : t < s
            /\ popped \cup Seqs(nozzleQueue[n]) \cup evicted[n] = 1 .. appended[n]
            /\ popped \cap evicted[n] = {}
            /\ Seqs(nozzleQueue[n]) \cap evicted[n] = {}

C5_Witness ==
    /\ Len(dequeued[0]) >= 3
    /\ \E e \in evicted[0] : e < dequeued[0][1]
    /\ nozzleQueue[0] # <<>>

\* C6 (SpecBurst): a consumer that is timing a job or is inside the delay wait or
\* the on-duration wait does not hold its Condition, and a receive in
\* progress on that nozzle can then take its next step: enter the with block
\* or append and notify.
C6_NoLockWhileSleeping ==
    \A n \in Nozzles :
        (Sleeping(n) \/ pc[n] = "timing") =>
            /\ lock[nozzleconditionDict(n)] # Worker
            /\ (\E c \in Callers : rpc[c] \in {"with", "append"} /\ msg[c].nozzle = n)
                  => \E c \in Callers :
                        /\ msg[c].nozzle = n
                        /\ ENABLED (ReceiveEnter(c) \/ ReceiveAppend(c))

C6_Witness ==
    \E n \in Nozzles, c \in Callers :
        /\ pc[n] = "spray"
        /\ wakeAt[n] > now
        /\ lock[nozzleconditionDict(n)] = c
        /\ rpc[c] = "append"

\* C7 (SpecAdmin): every receive call returns.
C7_ReceiveReturns ==
    \A c \in Callers : (rpc[c] # "idle") ~> (rpc[c] = "idle")

\* C8 (Spec): a step in which nozzle a's consumer moves, or a receive on
\* nozzle a moves, or a's deque, Condition or flag change, leaves the deque,
\* the Condition, the program point and the locals of every other nozzle b as
\* they were; and whether b's consumer or a receive on b can step depends on
\* b's own deque, Condition and program point (and the clock) alone.
Moves(a) ==
    \/ <<nozzleQueue[a], lock[a], pc[a], nozzleOn[a]>>' #
           <<nozzleQueue[a], lock[a], pc[a], nozzleOn[a]>>
    \/ \E c \in Callers :
          /\ rpc'[c] # rpc[c]
          /\ IF rpc[c] = "idle" THEN msg'[c].nozzle = a ELSE msg[c].nozzle = a

C8_Frame ==
    \A a \in Nozzles, b \in Nozzles :
        (a # b /\ Moves(a)) =>
            UNCHANGED <<nozzleQueue[b], lock[b], pc[b], nozzleOn[b],
                        sprayJob[b], wakeAt[b], calls[b], appended[b]>>

ConsumerReady(b) ==
    \/ pc[b] \in {"start", "acquire", "notified"} /\ lock[b] = Free
    \/ pc[b] \in {"outer", "inner"}
    \/ pc[b] = "timing"
    \/ Sleeping(b) /\ now >= wakeAt[b]

C8_Enabled ==
    \A b \in Nozzles :
        /\ ENABLED Consumer(b) <=> ConsumerReady(b)
        /\ \A c \in Callers :
              (rpc[c] = "with" /\ msg[c].nozzle = b) =>
                  (ENABLED ReceiveEnter(c) <=> lock[b] = Free)
        /\ \A c \in Callers :
              (rpc[c] \in {"append", "log"} /\ msg[c].nozzle = b) =>
                  ENABLED (ReceiveAppend(c) \/ ReceiveLog(c))

C8_Independent == [](C8_Enabled) /\ [][C8_Frame]_vars

C8_Witness ==
    /\ pc[0] = "spray"
    /\ wakeAt[0] > now
    /\ pc[1] = "waiting"
    /\ \E c \in Callers : rpc[c] = "append" /\ msg[c].nozzle = 1 /\ lock[1] = c

\* C9 (SpecTiming): for the job in hand onDur is max(0, duration - timeDiff),
\* timeDiff being the clock read after the pop minus the job's timeStamp, so
\* the on-duration wait is never negative and lasts exactly onDur from its
\* start; a job whose onDur is 0 is not skipped: while it is sprayed and
\* until the consumer is back at the loop test the last relay call is on(),
\* and once the consumer has found the deque empty and parked it is off().
C9_OnDurClamped ==
    \A n \in Nozzles :
        /\ pc[n] \in {"delay", "spray", "acquire"} =>
              /\ onDur[n] = Max0(sprayJob[n].duration - timeDiff[n])
              /\ onDur[n] >= 0
              /\ timeDiff[n] >= 0
              /\ timeDiff[n] <= now - sprayJob[n].timeStamp
        /\ pc[n] = "spray" => wakeAt[n] >= onDur[n] /\ wakeAt[n] - onDur[n] <= now
        /\ pc[n] \in {"spray", "acquire", "inner"} =>
              /\ Last(calls[n]) = "on"
              /\ relay[n] = "on"
        /\ pc[n] \in {"waiting", "notified"} =>
              /\ Last(calls[n]) = "off"
              /\ relay[n] = "off"

C9_Witness ==
    /\ pc[0] = "spray"
    /\ runJobs[0] = 1
    /\ sprayJob[0].duration - timeDiff[0] < 0
    /\ onDur[0] = 0
    /\ Last(calls[0]) = "on"

\* C10 (SpecTiming): a job whose duration - timeDiff is negative gets the
\* '[ERROR] negative onDur' line as its timing line.
C10_ErrorLineOnUnderflow ==
    \A n \in Nozzles :
        (report[n].tag # "none" /\ sprayJob[n].duration - timeDiff[n] < 0) =>
            report[n].tag = "ERROR"

\* C11 (SpecLookup): a receive() call for a nozzle that has no deque raises
\* the lookup failure and changes nothing: no deque, no consumer (none is
\* notified), no Condition, no caller and no relay changes and no audit line
\* is logged; a call that does go on names a nozzle that has a deque.
C11_Step ==
    received' # received =>
        IF keyError' # keyError
        THEN /\ Last(keyError') \notin DOMAIN nozzleQueue
             /\ UNCHANGED <<nozzleQueue, pc, lock, audit, rpc, msg, appended,
                            evicted, relay, calls, now>>
        ELSE \E c \in Callers :
                /\ rpc[c] = "idle"
                /\ rpc'[c] = "with"
                /\ msg'[c].nozzle \in DOMAIN nozzleQueue

C11_LookupFailure == [][C11_Step]_vars

\* a call has failed while a job was queued and another consumer was parked
C11_Witness ==
    /\ keyError # <<>>
    /\ nozzleQueue[0] # <<>>
    /\ \E n \in Nozzles : pc[n] = "waiting"

\* C12 (SpecTiming): a job popped with the nozzle off waits, before on(),
\* 0 when its effective on-duration max(0, duration - elapsed) is 0 and
\* max(0, delay - elapsed) otherwise, elapsed being the clock reading minus
\* the job's timeStamp; the wait is followed by on() and by nothing else;
\* no sleep of the consumer, delay or on-duration, ends before it began.
C12_Wait(n) ==
    LET elapsed == now - sprayJob[n].timeStamp
    IN  IF Max0(sprayJob[n].duration - elapsed) = 0
        THEN 0
        ELSE Max0(sprayJob[n].delay - elapsed)

C12_Step ==
    \A n \in Nozzles :
        /\ (pc[n] = "timing" /\ pc'[n] # "timing" /\ ~nozzleOn[n]) =>
               /\ pc'[n] = "delay"
               /\ wakeAt'[n] = now + C12_Wait(n)
        /\ (pc[n] = "delay" /\ pc'[n] # "delay") =>
               /\ pc'[n] = "spray"
               /\ calls'[n] = Append(calls[n], "on")
        /\ (Sleeping(n)' /\ pc'[n] # pc[n]) => wakeAt'[n] >= now

C12_DelayClamped == [][C12_Step]_vars

\* on() has been called for a job whose computed delay was negative while
\* its on-duration was not used up
C12_Witness ==
    /\ pc[0] = "spray"
    /\ Last(calls[0]) = "on"
    /\ runJobs[0] = 1
    /\ onDur[0] > 0
    /\ sprayJob[0].delay - timeDiff[0] < 0

\* consumer(n) is parked in inputCondition.wait()
Parked(n) == pc[n] \in {"waiting", "notified"}

\* C13 (SpecLive): with every thread scheduled again and again, each job
\* that receive() appended to a deque is eventually popped by the nozzle's
\* consumer or discarded by the full deque, and a consumer parked in wait()
\* with a job in its deque does not stay parked.
C13_NoLostWakeup ==
    \A n \in Nozzles :
        /\ \A s \in 1 .. MaxBurst :
              (appended[n] >= s) ~>
                  (s \in evicted[n] \/ \E i \in DOMAIN dequeued[n] :
                                          dequeued[n][i] = s)
        /\ (Parked(n) /\ nozzleQueue[n] # <<>>) ~> ~Parked(n)

\* a job was appended while the consumer was parked after an earlier run
C13_Witness ==
    /\ pc[0] = "notified"
    /\ nozzleQueue[0] # <<>>
    /\ Len(dequeued[0]) >= 1
    /\ Last(calls[0]) = "off"

\* C14 (SpecAdmin): whatever receive(), remove(), clear() and stop() calls
\* are interleaved with it, no consumer has returned from its loop or has
\* been ended by an exception, and Controller.running is true from the
\* moment the first consumer has started.
C14_WorkersAlive ==
    \A n \in Nozzles :
        /\ pc[n] \notin {"exited", "dead"}
        /\ pc[n] # "start" => running

\* C15 (SpecConfig): from construction on, the nozzle numbers that own a
\* deque, a Condition and a consumer are the keys of the mapping the relays
\* were built from, whatever those keys are.
C15_KeysMatch ==
    /\ DOMAIN nozzleQueue = solenoidDict
    /\ DOMAIN lock = solenoidDict
    /\ DOMAIN pc = solenoidDict

\* C16 (SpecBurst): whenever a consumer is parked in wait() and no notify()
\* has reached it since it parked, its deque is empty, its nozzleOn is false
\* and the last call it made on its relay is off().
C16_Idle ==
    \A n \in Nozzles :
        pc[n] = "waiting" =>
            /\ nozzleQueue[n] = <<>>
            /\ ~nozzleOn[n]
            /\ calls[n] # <<>>
            /\ Last(calls[n]) = "off"
            /\ relay[n] = "off"

\* the consumer is parked again after a run that merged two jobs or more
C16_Witness ==
    /\ pc[0] = "waiting"
    /\ Len(dequeued[0]) >= 2
    /\ Len(calls[0]) = 3
    /\ appended[0] = Len(dequeued[0])

\* the Idle state of nozzle n
Idle(n) ==
    /\ pc[n] = "waiting"
    /\ nozzleQueue[n] = <<>>
    /\ ~nozzleOn[n]
    /\ calls[n] # <<>>
    /\ Last(calls[n]) = "off"

\* C17 (SpecLive): receive() is called MaxBurst times at most, so in every
\* behaviour the calls stop; with every thread scheduled again and again and
\* every sleep finite, each nozzle then reaches the state with its deque
\* empty, off() as its last relay call, nozzleOn false and its consumer
\* parked in wait(), and stays in it.
C17_Quiescence == \A n \in Nozzles : <>[]Idle(n)

\* the nozzle is idle again after the whole burst, part of it evicted
C17_Witness ==
    /\ Idle(0)
    /\ received = MaxBurst
    /\ \A c \in Callers : rpc[c] = "idle"
    /\ evicted[0] # {}
    /\ Len(calls[0]) >= 3

\* C18 (SpecWindow): the off() that ends an activation run is not called
\* before timeStamp + duration of any job popped in that run, whatever the
\* job's delay, duration and elapsed time and whether it started the run or
\* was merged into it.
C18_Step ==
    \A n \in Nozzles :
        (calls'[n] = Append(calls[n], "off") /\ runJobs[n] > 0) =>
            now >= runEnd[n]

C18_WindowKept == [][C18_Step]_vars

\* a run of two jobs has ended, and the clock still reads the end of the
\* later of their windows
C18_Witness ==
    /\ pc[0] = "waiting"
    /\ calls[0] = <<"off", "on", "off">>
    /\ Len(dequeued[0]) = 2
    /\ runEnd[0] = now
    /\ now > 0

\* C19 (SpecAdmin): once stop() has returned, it has called off() on every
\* relay that was mapped when it was called, and the mapping is empty.
C19_StopSwitchesOff ==
    stopLog.called =>
        /\ stopLog.off = stopLog.mapped
        /\ solenoidDict = {}
====
